---------------------------- MODULE Spec2Model ----------------------------
(***************************************************************************)
(* The country lookup service (CountriesService): cache-aside reads in     *)
(* front of a relational store, with a fixed in-memory fallback table that *)
(* is used when the store reports itself disconnected.                     *)
(*                                                                         *)
(* Strings are TLA+ strings; a character is a string of length one.        *)
(* An invocation of a service method is a process slot that moves from one *)
(* awaited call to the next; every step is the effect of the awaited call  *)
(* followed by the synchronous code up to the next await.                  *)
(***************************************************************************)
EXTENDS Integers, Sequences, FiniteSets, TLC

(***************************************************************************)
(* Bounds of the model.                                                    *)
(***************************************************************************)
MaxCalls == 2
MaxSeqCalls == 3
MaxEnv == 1
MaxPage == 2
MaxLimit == 2

Procs == {"p1", "p2"}

(***************************************************************************)
(* String primitives of the language runtime.                              *)
(***************************************************************************)
LowerLetters == "abcdefghijklmnopqrstuvwxyz"
UpperLetters == "ABCDEFGHIJKLMNOPQRSTUVWXYZ"
\* Collation order of the characters that occur in names.
Collation == " +,-.0123456789:ABCDEFGHIJKLMNOPQRSTUVWXYZabcdefghijklmnopqrstuvwxyz"

CharAt(s, i) == SubSeq(s, i, i)

Chars(table) == {CharAt(table, i) : i \in 1..Len(table)}

\* Position of a character in a table of distinct characters, 0 when absent.
PositionIn(table) ==
    [c \in Chars(table) |-> CHOOSE i \in 1..Len(table) : CharAt(table, i) = c]

LowerPosition == PositionIn(LowerLetters)
UpperPosition == PositionIn(UpperLetters)
CollationPosition == PositionIn(Collation)

UpperChar(c) ==
    IF c \in DOMAIN LowerPosition THEN CharAt(UpperLetters, LowerPosition[c]) ELSE c

LowerChar(c) ==
    IF c \in DOMAIN UpperPosition THEN CharAt(LowerLetters, UpperPosition[c]) ELSE c

\* Rank of a character in the collation order; unlisted characters first.
Rank(c) == IF c \in DOMAIN CollationPosition THEN CollationPosition[c] ELSE 0

RECURSIVE toUpperCase(_)
toUpperCase(s) ==
    IF Len(s) = 0 THEN ""
    ELSE UpperChar(CharAt(s, 1)) \o toUpperCase(SubSeq(s, 2, Len(s)))

RECURSIVE toLowerCase(_)
toLowerCase(s) ==
    IF Len(s) = 0 THEN ""
    ELSE LowerChar(CharAt(s, 1)) \o toLowerCase(SubSeq(s, 2, Len(s)))

\* String.prototype.includes: sub occurs in s as a contiguous substring.
includes(s, sub) ==
    \E i \in 1..(Len(s) - Len(sub) + 1) : SubSeq(s, i, i + Len(sub) - 1) = sub

\* Strict "comes before" of two strings, character by character.
RECURSIVE StrLess(_, _)
StrLess(a, b) ==
    IF Len(b) = 0 THEN FALSE
    ELSE IF Len(a) = 0 THEN TRUE
    ELSE LET x == Rank(CharAt(a, 1))
             y == Rank(CharAt(b, 1))
         IN  IF x # y THEN x < y
             ELSE StrLess(SubSeq(a, 2, Len(a)), SubSeq(b, 2, Len(b)))

\* Math.ceil(a / b) for a >= 0 and b >= 1.
MathCeilDiv(a, b) == IF a % b = 0 THEN a \div b ELSE (a \div b) + 1

\* new Date().toISOString() at clock reading t (seconds after the epoch).
toISOString(t) == "1970-01-01T00:00:0" \o ToString(t) \o ".000Z"

(***************************************************************************)
(* JavaScript values and objects.  An object is the sequence of its own    *)
(* properties in insertion order; a property may hold undefined.           *)
(***************************************************************************)
Undefined == [t |-> "undefined", s |-> "", n |-> 0]
Str(x) == [t |-> "string", s |-> x, n |-> 0]
Num(x) == [t |-> "number", s |-> "", n |-> x]
Field(name, value) == [k |-> name, v |-> value]

\* o[name]: the property's value, undefined when the object has no such property.
Prop(o, name) ==
    IF \E i \in 1..Len(o) : o[i].k = name
    THEN o[CHOOSE i \in 1..Len(o) : o[i].k = name].v
    ELSE Undefined

\* if (v): a non-empty string or a non-zero number.
Truthy(v) == (v.t = "string" /\ v.s # "") \/ (v.t = "number" /\ v.n # 0)

StringifyValue(v) ==
    IF v.t = "string" THEN "\"" \o v.s \o "\"" ELSE ToString(v.n)

\* The members JSON.stringify writes for an object: its properties in
\* insertion order, those holding undefined left out, separated by commas.
RECURSIVE StringifyMembers(_, _)
StringifyMembers(o, first) ==
    IF Len(o) = 0 THEN ""
    ELSE IF Head(o).v.t = "undefined" THEN StringifyMembers(Tail(o), first)
    ELSE (IF first THEN "" ELSE ",")
         \o "\"" \o Head(o).k \o "\":" \o StringifyValue(Head(o).v)
         \o StringifyMembers(Tail(o), FALSE)

StringifyObject(o) == "{" \o StringifyMembers(o, TRUE) \o "}"

\* JSON.stringify({ filters, pagination })
JSONStringify(filters, pagination) ==
    "{\"filters\":" \o StringifyObject(filters)
    \o ",\"pagination\":" \o StringifyObject(pagination) \o "}"

(***************************************************************************)
(* Cache keys and time-to-live.                                            *)
(***************************************************************************)
CACHE_KEYS ==
    [ALL_COUNTRIES |-> "countries:all",
     COUNTRY_BY_CODE |-> "country:code:",
     CONTINENTS |-> "countries:continents",
     POPULAR_COUNTRIES |-> "countries:popular"]

CACHE_TTL == 60 * 60 * 24

FilteredKey(filters, pagination) ==
    "countries:filtered:" \o JSONStringify(filters, pagination)

CodeKey(code) == CACHE_KEYS.COUNTRY_BY_CODE \o toUpperCase(code)

\* The keys invalidateCache deletes.
InvalidatedKeys ==
    {CACHE_KEYS.ALL_COUNTRIES, CACHE_KEYS.CONTINENTS, CACHE_KEYS.POPULAR_COUNTRIES}

(***************************************************************************)
(* The fallback table.  A flag glyph is written as its country code, a     *)
(* coordinate as its decimal text.                                         *)
(***************************************************************************)
getFallbackCountryData ==
    << [code |-> "US", code3 |-> "USA", name |-> "United States",
        officialName |-> "United States of America",
        capital |-> "Washington, D.C.", continent |-> "North America",
        region |-> "Northern America", languages |-> <<"English">>,
        currencies |-> <<"USD">>, callingCodes |-> <<"+1">>,
        isPopularDestination |-> TRUE, flag |-> "flag:US",
        latitude |-> "39.8283", longitude |-> "-98.5795"],
       [code |-> "CA", code3 |-> "CAN", name |-> "Canada",
        officialName |-> "Canada",
        capital |-> "Ottawa", continent |-> "North America",
        region |-> "Northern America", languages |-> <<"English", "French">>,
        currencies |-> <<"CAD">>, callingCodes |-> <<"+1">>,
        isPopularDestination |-> TRUE, flag |-> "flag:CA",
        latitude |-> "56.1304", longitude |-> "-106.3468"],
       [code |-> "GB", code3 |-> "GBR", name |-> "United Kingdom",
        officialName |-> "United Kingdom of Great Britain and Northern Ireland",
        capital |-> "London", continent |-> "Europe",
        region |-> "Northern Europe", languages |-> <<"English">>,
        currencies |-> <<"GBP">>, callingCodes |-> <<"+44">>,
        isPopularDestination |-> TRUE, flag |-> "flag:GB",
        latitude |-> "55.3781", longitude |-> "-3.4360"],
       [code |-> "FR", code3 |-> "FRA", name |-> "France",
        officialName |-> "French Republic",
        capital |-> "Paris", continent |-> "Europe",
        region |-> "Western Europe", languages |-> <<"French">>,
        currencies |-> <<"EUR">>, callingCodes |-> <<"+33">>,
        isPopularDestination |-> TRUE, flag |-> "flag:FR",
        latitude |-> "46.2276", longitude |-> "2.2137"],
       [code |-> "DE", code3 |-> "DEU", name |-> "Germany",
        officialName |-> "Federal Republic of Germany",
        capital |-> "Berlin", continent |-> "Europe",
        region |-> "Western Europe", languages |-> <<"German">>,
        currencies |-> <<"EUR">>, callingCodes |-> <<"+49">>,
        isPopularDestination |-> TRUE, flag |-> "flag:DE",
        latitude |-> "51.1657", longitude |-> "10.4515"],
       [code |-> "JP", code3 |-> "JPN", name |-> "Japan",
        officialName |-> "Japan",
        capital |-> "Tokyo", continent |-> "Asia",
        region |-> "Eastern Asia", languages |-> <<"Japanese">>,
        currencies |-> <<"JPY">>, callingCodes |-> <<"+81">>,
        isPopularDestination |-> TRUE, flag |-> "flag:JP",
        latitude |-> "36.2048", longitude |-> "138.2529"],
       [code |-> "AU", code3 |-> "AUS", name |-> "Australia",
        officialName |-> "Commonwealth of Australia",
        capital |-> "Canberra", continent |-> "Oceania",
        region |-> "Australia and New Zealand", languages |-> <<"English">>,
        currencies |-> <<"AUD">>, callingCodes |-> <<"+61">>,
        isPopularDestination |-> TRUE, flag |-> "flag:AU",
        latitude |-> "-25.2744", longitude |-> "133.7751"] >>

(***************************************************************************)
(* Rows of the country table of the store.  A row carries the columns of   *)
(* the DTO and the table's own id column.                                  *)
(***************************************************************************)
DtoFields ==
    {"code", "code3", "name", "officialName", "capital", "continent", "region",
     "languages", "currencies", "callingCodes", "isPopularDestination", "flag",
     "latitude", "longitude"}

Row(id, dto) == [f \in DtoFields \cup {"id"} |-> IF f = "id" THEN id ELSE dto[f]]

RowUS == Row("row-us", getFallbackCountryData[1])
RowFR == Row("row-fr", getFallbackCountryData[4])
RowNG ==
    Row("row-ng",
       [code |-> "NG", code3 |-> "NGA", name |-> "Nigeria",
        officialName |-> "Federal Republic of Nigeria",
        capital |-> "Abuja", continent |-> "Africa",
        region |-> "Western Africa", languages |-> <<"English">>,
        currencies |-> <<"NGN">>, callingCodes |-> <<"+234">>,
        isPopularDestination |-> TRUE, flag |-> "flag:NG",
        latitude |-> "9.0820", longitude |-> "8.6753"])
\* The US row after an update of one of its columns.
RowUSUpdated == [RowUS EXCEPT !.capital = "Washington"]

StoreRows == {RowUS, RowUSUpdated, RowFR, RowNG}
InitialStore == {RowUS, RowFR, RowNG}

transformToDto(country) == [f \in DtoFields |-> country[f]]

\* countries.map(this.transformToDto)
countryDtos(countries) ==
    [i \in 1..Len(countries) |-> transformToDto(countries[i])]

\* array.slice(start, end) with 0 <= start <= end.
slice(seq, start, end) ==
    IF start >= Len(seq) THEN << >>
    ELSE SubSeq(seq, start + 1, IF end < Len(seq) THEN end ELSE Len(seq))

(***************************************************************************)
(* Ordering.                                                               *)
(***************************************************************************)
\* A sequence with element x inserted before the first element whose
\* field comes after x's.
RECURSIVE InsertSorted(_, _, _)
InsertSorted(seq, x, field) ==
    IF Len(seq) = 0 THEN << x >>
    ELSE IF StrLess(x[field], Head(seq)[field]) THEN << x >> \o seq
    ELSE << Head(seq) >> \o InsertSorted(Tail(seq), x, field)

\* array.sort((a, b) => a[field].localeCompare(b[field]))
RECURSIVE SortBy(_, _)
SortBy(seq, field) ==
    IF Len(seq) = 0 THEN << >>
    ELSE InsertSorted(SortBy(Tail(seq), field), Head(seq), field)

\* The elements of a finite set in ascending order of a field.
RECURSIVE SortSet(_, _)
SortSet(S, field) ==
    IF S = {} THEN << >>
    ELSE LET x == CHOOSE y \in S : \A z \in S : ~StrLess(z[field], y[field])
         IN  << x >> \o SortSet(S \ {x}, field)

(***************************************************************************)
(* Queries of the store gateway, with the arguments the service passes.    *)
(***************************************************************************)
\* The where clause getCountries builds: a condition is present only for a
\* truthy filter.
Where(filters) ==
    [continent |-> IF Truthy(Prop(filters, "continent"))
                   THEN Prop(filters, "continent") ELSE Undefined,
     region |-> IF Truthy(Prop(filters, "region"))
                THEN Prop(filters, "region") ELSE Undefined,
     search |-> IF Truthy(Prop(filters, "search"))
                THEN Prop(filters, "search") ELSE Undefined]

\* { equals: x, mode: 'insensitive' }
EqualsInsensitive(column, x) == toLowerCase(column) = toLowerCase(x)
\* { contains: x, mode: 'insensitive' }
ContainsInsensitive(column, x) == includes(toLowerCase(column), toLowerCase(x))

Matches(row, where) ==
    /\ where.continent.t # "undefined"
          => EqualsInsensitive(row.continent, where.continent.s)
    /\ where.region.t # "undefined"
          => ContainsInsensitive(row.region, where.region.s)
    /\ where.search.t # "undefined"
          => \/ ContainsInsensitive(row.name, where.search.s)
             \/ ContainsInsensitive(row.code, where.search.s)
             \/ ContainsInsensitive(row.code3, where.search.s)

\* prisma.country.count({ where })
Count(table, where) == Cardinality({r \in table : Matches(r, where)})

\* prisma.country.findMany({ where, orderBy: { name: 'asc' }, skip, take })
FindManyPage(table, where, skip, take) ==
    slice(SortSet({r \in table : Matches(r, where)}, "name"), skip, skip + take)

\* prisma.country.findMany({ orderBy: { name: 'asc' } })
FindManyAll(table) == SortSet(table, "name")

\* The rows prisma.country.findFirst may return for the code condition of
\* getCountryByCode; none when the set is empty.
FindFirstByCode(table, code) ==
    {r \in table : \/ EqualsInsensitive(r.code, toUpperCase(code))
                   \/ EqualsInsensitive(r.code3, toUpperCase(code))}

\* prisma.country.groupBy({ by: ['continent'], _count, orderBy: asc })
GroupByContinent(table) ==
    LET names == {r.continent : r \in table}
        Group(c) == [continent |-> c,
                     _count |-> [continent |->
                                   Cardinality({r \in table : r.continent = c})]]
    IN  SortSet({Group(c) : c \in names}, "continent")

(***************************************************************************)
(* Results.                                                                *)
(***************************************************************************)
\* PaginationMeta with the total pages rounded down.
PaginationMeta_floor(page, limit, total) ==
    LET totalPages == total \div limit
    IN  [page |-> page, limit |-> limit, total |-> total,
         totalPages |-> totalPages,
         hasNext |-> page < totalPages, hasPrev |-> page > 1]

PaginationMeta(page, limit, total) ==
    LET totalPages == MathCeilDiv(total, limit)
    IN  [page |-> page, limit |-> limit, total |-> total,
         totalPages |-> totalPages,
         hasNext |-> page < totalPages, hasPrev |-> page > 1]

\* The PaginatedResponseDto getCountries assembles from the store's answers.
StoreResult(pagination, total, countries, t) ==
    [success |-> TRUE,
     message |-> "Countries retrieved successfully",
     timestamp |-> toISOString(t),
     meta |-> PaginationMeta(Prop(pagination, "page").n,
                             Prop(pagination, "limit").n, total),
     data |-> countryDtos(countries)]

ContinentData(groups) ==
    [i \in 1..Len(groups) |->
        [name |-> groups[i].continent,
         countryCount |-> groups[i]._count.continent]]

ContinentsResponse(data, t) ==
    [success |-> TRUE,
     message |-> "Continents retrieved successfully",
     timestamp |-> toISOString(t),
     data |-> data]

(***************************************************************************)
(* The fallback methods.                                                   *)
(***************************************************************************)
FallbackMeta(page, limit, total) ==
    LET totalPages == MathCeilDiv(total, limit)
    IN  [page |-> page, limit |-> limit, total |-> total,
         totalPages |-> totalPages,
         hasNext |-> page < totalPages, hasPrev |-> page > 1]

\* FallbackFilter with the continent compared as it is written.
FallbackFilter_caseSensitive(filters) ==
    LET continent == Prop(filters, "continent")
        region == Prop(filters, "region")
        search == Prop(filters, "search")
        ByContinent(c) == c.continent = continent.s
        ByRegion(c) == includes(toLowerCase(c.region), toLowerCase(region.s))
        BySearch(c) ==
            LET searchTerm == toLowerCase(search.s)
            IN  \/ includes(toLowerCase(c.name), searchTerm)
                \/ includes(toLowerCase(c.code), searchTerm)
                \/ includes(toLowerCase(c.code3), searchTerm)
        all == getFallbackCountryData
        s1 == IF Truthy(continent) THEN SelectSeq(all, ByContinent) ELSE all
        s2 == IF Truthy(region) THEN SelectSeq(s1, ByRegion) ELSE s1
    IN  IF Truthy(search) THEN SelectSeq(s2, BySearch) ELSE s2

FallbackFilter(filters) ==
    LET continent == Prop(filters, "continent")
        region == Prop(filters, "region")
        search == Prop(filters, "search")
        ByContinent(c) == toLowerCase(c.continent) = toLowerCase(continent.s)
        ByRegion(c) == includes(toLowerCase(c.region), toLowerCase(region.s))
        BySearch(c) ==
            LET searchTerm == toLowerCase(search.s)
            IN  \/ includes(toLowerCase(c.name), searchTerm)
                \/ includes(toLowerCase(c.code), searchTerm)
                \/ includes(toLowerCase(c.code3), searchTerm)
        all == getFallbackCountryData
        s1 == IF Truthy(continent) THEN SelectSeq(all, ByContinent) ELSE all
        s2 == IF Truthy(region) THEN SelectSeq(s1, ByRegion) ELSE s1
    IN  IF Truthy(search) THEN SelectSeq(s2, BySearch) ELSE s2

getFallbackCountries(filters, pagination, t) ==
    LET filteredCountries == FallbackFilter(filters)
        page == Prop(pagination, "page").n
        limit == Prop(pagination, "limit").n
        total == Len(filteredCountries)
        startIndex == (page - 1) * limit
        endIndex == startIndex + limit
    IN  [success |-> TRUE,
         message |-> "Countries retrieved successfully (fallback data)",
         timestamp |-> toISOString(t),
         meta |-> FallbackMeta(page, limit, total),
         data |-> slice(filteredCountries, startIndex, endIndex)]

\* FallbackMatch with the codes compared as they are written.
FallbackMatch_caseSensitive(c, code) ==
    \/ c.code = code
    \/ c.code3 = code

\* The records countries.find(...) can return: the first match, if any.
FallbackMatch(c, code) ==
    \/ toLowerCase(c.code) = toLowerCase(code)
    \/ toLowerCase(c.code3) = toLowerCase(code)

\* getFallbackCountryByCode with the first record of the table returned when
\* no record has the code.
getFallbackCountryByCode_firstRecord(code) ==
    LET countries == getFallbackCountryData
        hits == {i \in 1..Len(countries) : FallbackMatch(countries[i], code)}
    IN  IF hits = {}
        THEN [found |-> TRUE, country |-> countries[1]]
        ELSE [found |-> TRUE,
              country |-> countries[CHOOSE i \in hits : \A j \in hits : i <= j]]

getFallbackCountryByCode(code) ==
    LET countries == getFallbackCountryData
        hits == {i \in 1..Len(countries) : FallbackMatch(countries[i], code)}
    IN  IF hits = {}
        THEN [found |-> FALSE, country |-> countries[1]]
        ELSE [found |-> TRUE,
              country |-> countries[CHOOSE i \in hits : \A j \in hits : i <= j]]

\* continentCounts after the forEach: one entry per continent, in the order
\* of first occurrence.
RECURSIVE CountContinents(_, _)
CountContinents(countries, counts) ==
    IF Len(countries) = 0 THEN counts
    ELSE LET c == Head(countries).continent
             known == \E i \in 1..Len(counts) : counts[i].name = c
             bumped == [i \in 1..Len(counts) |->
                          IF counts[i].name = c
                          THEN [counts[i] EXCEPT !.countryCount = @ + 1]
                          ELSE counts[i]]
         IN  CountContinents(Tail(countries),
                 IF known THEN bumped
                 ELSE Append(counts, [name |-> c, countryCount |-> 1]))

\* getFallbackContinents with the summaries left in the order of first
\* occurrence.
getFallbackContinents_unsorted(t) ==
    [success |-> TRUE,
     message |-> "Continents retrieved successfully (fallback data)",
     timestamp |-> toISOString(t),
     data |-> CountContinents(getFallbackCountryData, << >>)]

getFallbackContinents(t) ==
    [success |-> TRUE,
     message |-> "Continents retrieved successfully (fallback data)",
     timestamp |-> toISOString(t),
     data |-> SortBy(CountContinents(getFallbackCountryData, << >>), "name")]

(***************************************************************************)
(* Inputs of the calls.                                                    *)
(***************************************************************************)
\* {}
FiltersNone == << >>
\* { continent, search } built by the controller from a request without
\* query parameters.
FiltersUnset == << Field("continent", Undefined), Field("search", Undefined) >>
FiltersContinentSearch ==
    << Field("continent", Str("Europe")), Field("search", Str("an")) >>
\* The same filters, the properties assigned in the other order.
FiltersSearchContinent ==
    << Field("search", Str("an")), Field("continent", Str("Europe")) >>

\* All three filters: a continent in lower case, a part of a region in
\* upper case, an empty search.
FiltersContinentRegion ==
    << Field("continent", Str("europe")), Field("region", Str("ERN")),
       Field("search", Str("")) >>

FilterInputs ==
    {FiltersNone, FiltersUnset, FiltersContinentSearch, FiltersSearchContinent,
     FiltersContinentRegion}

PageLimit(page, limit) == << Field("page", Num(page)), Field("limit", Num(limit)) >>
LimitPage(page, limit) == << Field("limit", Num(limit)), Field("page", Num(page)) >>

PaginationInputs ==
    {PageLimit(page, limit) : page \in 1..MaxPage, limit \in 1..MaxLimit}
    \cup {LimitPage(1, 1)}

\* The requests made: every page request without filters, and every filter
\* object with one page request.
Requests ==
    {<< FiltersUnset, pagination >> : pagination \in PaginationInputs}
    \cup {<< filters, PageLimit(1, MaxLimit) >> : filters \in FilterInputs}

CodeInputs == {"us", "USA", "ZZZZZ"}

(***************************************************************************)
(* State.                                                                  *)
(***************************************************************************)
VARIABLES
    store,        \* the rows of the country table
    dbConnected,  \* what prisma.isDbConnected() returns
    cache,        \* the cache manager: key -> [value, ttl], present keys only
    now,          \* the clock
    inv,          \* the invocation in each process slot
    last,         \* the invocation that completed most recently, and the
                  \* operations that completed before it, in order
    ncalls,       \* invocations started
    nenv          \* steps of the environment taken

vars == << store, dbConnected, cache, now, inv, last, ncalls, nenv >>

NoRes == [none |-> TRUE]

\* A slot with no invocation in it.  gate and hit record what the invocation
\* has read so far; nq and ns count the store queries and cache sets it has
\* issued; overtaken records that an invalidateCache began after the
\* invocation read the store (history only: no step reads it).
Idle ==
    [pc |-> "idle", op |-> "none", filters |-> << >>, pagination |-> << >>,
     code |-> "", key |-> "", gate |-> "unread", hit |-> "unread",
     total |-> 0, result |-> NoRes, pending |-> {}, nq |-> 0, ns |-> 0,
     overtaken |-> FALSE]

NoLast ==
    [op |-> "none", filters |-> << >>, pagination |-> << >>, code |-> "",
     key |-> "", gate |-> "unread", hit |-> "unread", nq |-> 0, ns |-> 0,
     err |-> "none", res |-> NoRes, before |-> << >>]

EmptyCache == [k \in {} |-> NoRes]

Init ==
    /\ store = InitialStore
    /\ dbConnected \in BOOLEAN
    /\ cache = EmptyCache
    /\ now = 0
    /\ inv = [p \in Procs |-> Idle]
    /\ last = NoLast
    /\ ncalls = 0
    /\ nenv = 0

(***************************************************************************)
(* The cache manager.                                                      *)
(***************************************************************************)
CacheHas(k) == k \in DOMAIN cache

CacheSet(c, k, value, ttl) ==
    [x \in DOMAIN c \cup {k} |->
        IF x = k THEN [value |-> value, ttl |-> ttl] ELSE c[x]]

CacheDel(c, keys) == [x \in DOMAIN c \ keys |-> c[x]]

(***************************************************************************)
(* Invocations.                                                            *)
(***************************************************************************)
InFlight(p) == inv[p].pc # "idle"

\* The slots are interchangeable: p2 serves an invocation that starts while
\* another one is in flight.
CanCall(p) ==
    /\ ~InFlight(p)
    /\ p = "p2" => InFlight("p1")

Started(p, r) ==
    /\ inv' = [inv EXCEPT ![p] = r]
    /\ ncalls' = ncalls + 1
    /\ UNCHANGED << store, dbConnected, cache, now, last, nenv >>

Moved(p, r) ==
    /\ inv' = [inv EXCEPT ![p] = r]
    /\ UNCHANGED << store, dbConnected, cache, now, last, ncalls, nenv >>

\* The invocation r of slot p returns res, or throws err.  The record of the
\* invocation that completed before it moves to the end of "before": its
\* operation if it returned, its error if it threw.
Completed(p, r, res, err) ==
    /\ inv' = [inv EXCEPT ![p] = Idle]
    /\ last' = [op |-> r.op, filters |-> r.filters, pagination |-> r.pagination,
                code |-> r.code, key |-> r.key, gate |-> r.gate, hit |-> r.hit,
                nq |-> r.nq, ns |-> r.ns, err |-> err, res |-> res,
                before |-> IF last.op = "none" THEN << >>
                           ELSE Append(last.before,
                                       IF last.err = "none" THEN last.op
                                       ELSE last.err)]

At(p, op, pc) == inv[p].op = op /\ inv[p].pc = pc

(***************************************************************************)
(* getCountries(filters, pagination)                                       *)
(***************************************************************************)
\* The call up to the first await: the connectivity check, the fallback
\* return, the cache key.
getCountries(p, filters, pagination) ==
    /\ CanCall(p)
    /\ LET r == [Idle EXCEPT !.op = "getCountries", !.filters = filters,
                             !.pagination = pagination]
       IN  IF ~dbConnected
           THEN /\ Completed(p, [r EXCEPT !.gate = "disconnected"],
                             getFallbackCountries(filters, pagination, now),
                             "none")
                /\ ncalls' = ncalls + 1
                /\ UNCHANGED << store, dbConnected, cache, now, nenv >>
           ELSE Started(p, [r EXCEPT !.gate = "connected", !.pc = "get",
                                     !.key = FilteredKey(filters, pagination)])

\* getCountries_get with the cached response stamped again on a hit.
getCountries_get_restamped(p) ==
    /\ At(p, "getCountries", "get")
    /\ IF CacheHas(inv[p].key)
       THEN /\ Completed(p, [inv[p] EXCEPT !.hit = "hit"],
                         [cache[inv[p].key].value EXCEPT
                             !.timestamp = toISOString(now)], "none")
            /\ UNCHANGED << store, dbConnected, cache, now, ncalls, nenv >>
       ELSE Moved(p, [inv[p] EXCEPT !.hit = "miss", !.pc = "count",
                                    !.nq = @ + 1])

\* cacheManager.get resolves: a hit returns the cached value, a miss builds
\* the where clause and issues the count.
getCountries_get(p) ==
    /\ At(p, "getCountries", "get")
    /\ IF CacheHas(inv[p].key)
       THEN /\ Completed(p, [inv[p] EXCEPT !.hit = "hit"],
                         cache[inv[p].key].value, "none")
            /\ UNCHANGED << store, dbConnected, cache, now, ncalls, nenv >>
       ELSE Moved(p, [inv[p] EXCEPT !.hit = "miss", !.pc = "count",
                                    !.nq = @ + 1])

\* prisma.country.count resolves; findMany is issued.
getCountries_count(p) ==
    /\ At(p, "getCountries", "count")
    /\ Moved(p, [inv[p] EXCEPT !.total = Count(store, Where(inv[p].filters)),
                               !.pc = "findMany", !.nq = @ + 1])

\* prisma.country.findMany resolves; the result is assembled and
\* cacheManager.set is issued.
getCountries_findMany(p) ==
    /\ At(p, "getCountries", "findMany")
    /\ LET page == Prop(inv[p].pagination, "page").n
           limit == Prop(inv[p].pagination, "limit").n
           countries == FindManyPage(store, Where(inv[p].filters),
                                     (page - 1) * limit, limit)
       IN  Moved(p, [inv[p] EXCEPT
                        !.result = StoreResult(inv[p].pagination, inv[p].total,
                                               countries, now),
                        !.pc = "set", !.ns = @ + 1])

\* cacheManager.set resolves; the result is returned.
getCountries_set(p) ==
    /\ At(p, "getCountries", "set")
    /\ cache' = CacheSet(cache, inv[p].key, inv[p].result, CACHE_TTL)
    /\ Completed(p, inv[p], inv[p].result, "none")
    /\ UNCHANGED << store, dbConnected, now, ncalls, nenv >>

(***************************************************************************)
(* getCountryByCode(code)                                                  *)
(***************************************************************************)
getCountryByCode(p, code) ==
    /\ CanCall(p)
    /\ Started(p, [Idle EXCEPT !.op = "getCountryByCode", !.code = code,
                               !.key = CodeKey(code), !.pc = "get"])

\* getCountryByCode_get with the fallback record stored in the cache.
getCountryByCode_get_cachesFallback(p) ==
    /\ At(p, "getCountryByCode", "get")
    /\ IF CacheHas(inv[p].key)
       THEN /\ Completed(p, [inv[p] EXCEPT !.hit = "hit"],
                         cache[inv[p].key].value, "none")
            /\ UNCHANGED << store, dbConnected, cache, now, ncalls, nenv >>
       ELSE IF ~dbConnected
       THEN /\ LET r == [inv[p] EXCEPT !.hit = "miss", !.gate = "disconnected"]
                   f == getFallbackCountryByCode(inv[p].code)
               IN  IF f.found
                   THEN /\ Completed(p, [r EXCEPT !.ns = @ + 1], f.country,
                                     "none")
                        /\ cache' = CacheSet(cache, inv[p].key, f.country,
                                             CACHE_TTL)
                   ELSE /\ Completed(p, r, NoRes, "NotFound")
                        /\ UNCHANGED cache
            /\ UNCHANGED << store, dbConnected, now, ncalls, nenv >>
       ELSE Moved(p, [inv[p] EXCEPT !.hit = "miss", !.gate = "connected",
                                    !.pc = "findFirst", !.nq = @ + 1])

\* cacheManager.get resolves: a hit returns the cached value; on a miss the
\* connectivity check selects the fallback table or the store query.
getCountryByCode_get(p) ==
    /\ At(p, "getCountryByCode", "get")
    /\ IF CacheHas(inv[p].key)
       THEN /\ Completed(p, [inv[p] EXCEPT !.hit = "hit"],
                         cache[inv[p].key].value, "none")
            /\ UNCHANGED << store, dbConnected, cache, now, ncalls, nenv >>
       ELSE IF ~dbConnected
       THEN /\ LET r == [inv[p] EXCEPT !.hit = "miss", !.gate = "disconnected"]
                   f == getFallbackCountryByCode(inv[p].code)
               IN  IF f.found
                   THEN Completed(p, r, f.country, "none")
                   ELSE Completed(p, r, NoRes, "NotFound")
            /\ UNCHANGED << store, dbConnected, cache, now, ncalls, nenv >>
       ELSE Moved(p, [inv[p] EXCEPT !.hit = "miss", !.gate = "connected",
                                    !.pc = "findFirst", !.nq = @ + 1])

\* getCountryByCode_findFirst with the absence of a row stored in the cache.
getCountryByCode_findFirst_negativeCaching(p) ==
    /\ At(p, "getCountryByCode", "findFirst")
    /\ LET rows == FindFirstByCode(store, inv[p].code)
       IN  IF rows = {}
           THEN /\ Completed(p, inv[p], NoRes, "NotFound")
                /\ cache' = CacheSet(cache, inv[p].key, NoRes, CACHE_TTL)
                /\ UNCHANGED << store, dbConnected, now, ncalls, nenv >>
           ELSE \E country \in rows :
                    Moved(p, [inv[p] EXCEPT !.result = transformToDto(country),
                                            !.pc = "set", !.ns = @ + 1])

\* prisma.country.findFirst resolves: no row throws NotFound, a row is
\* transformed and cacheManager.set is issued.
getCountryByCode_findFirst(p) ==
    /\ At(p, "getCountryByCode", "findFirst")
    /\ LET rows == FindFirstByCode(store, inv[p].code)
       IN  IF rows = {}
           THEN /\ Completed(p, inv[p], NoRes, "NotFound")
                /\ UNCHANGED << store, dbConnected, cache, now, ncalls, nenv >>
           ELSE \E country \in rows :
                    Moved(p, [inv[p] EXCEPT !.result = transformToDto(country),
                                            !.pc = "set", !.ns = @ + 1])

getCountryByCode_set(p) ==
    /\ At(p, "getCountryByCode", "set")
    /\ cache' = CacheSet(cache, inv[p].key, inv[p].result, CACHE_TTL)
    /\ Completed(p, inv[p], inv[p].result, "none")
    /\ UNCHANGED << store, dbConnected, now, ncalls, nenv >>

\* What an invocation of getCountryByCode(code) that runs from this state
\* without another step in between returns or throws.
getCountryByCodeOutcomes(code) ==
    LET cacheKey == CodeKey(code)
    IN  IF CacheHas(cacheKey)
        THEN {[err |-> "none", res |-> cache[cacheKey].value]}
        ELSE IF ~dbConnected
        THEN LET f == getFallbackCountryByCode(code)
             IN  IF f.found THEN {[err |-> "none", res |-> f.country]}
                 ELSE {[err |-> "NotFound", res |-> NoRes]}
        ELSE LET rows == FindFirstByCode(store, code)
             IN  IF rows = {} THEN {[err |-> "NotFound", res |-> NoRes]}
                 ELSE {[err |-> "none", res |-> transformToDto(country)] :
                          country \in rows}

(***************************************************************************)
(* getContinents()                                                         *)
(***************************************************************************)
getContinents(p) ==
    /\ CanCall(p)
    /\ Started(p, [Idle EXCEPT !.op = "getContinents",
                               !.key = CACHE_KEYS.CONTINENTS, !.pc = "get"])

\* getContinents_get with the connectivity check made before the cache is
\* looked at.
getContinents_get_gateFirst(p) ==
    /\ At(p, "getContinents", "get")
    /\ IF ~dbConnected
       THEN /\ Completed(p, [inv[p] EXCEPT !.gate = "disconnected"],
                         getFallbackContinents(now), "none")
            /\ UNCHANGED << store, dbConnected, cache, now, ncalls, nenv >>
       ELSE IF CacheHas(inv[p].key)
       THEN /\ Completed(p, [inv[p] EXCEPT !.hit = "hit"],
                         ContinentsResponse(cache[inv[p].key].value, now),
                         "none")
            /\ UNCHANGED << store, dbConnected, cache, now, ncalls, nenv >>
       ELSE Moved(p, [inv[p] EXCEPT !.hit = "miss", !.gate = "connected",
                                    !.pc = "groupBy", !.nq = @ + 1])

\* cacheManager.get resolves: a hit wraps the cached summaries in a new
\* response; on a miss the connectivity check selects the fallback table or
\* the grouped query.
getContinents_get(p) ==
    /\ At(p, "getContinents", "get")
    /\ IF CacheHas(inv[p].key)
       THEN /\ Completed(p, [inv[p] EXCEPT !.hit = "hit"],
                         ContinentsResponse(cache[inv[p].key].value, now),
                         "none")
            /\ UNCHANGED << store, dbConnected, cache, now, ncalls, nenv >>
       ELSE IF ~dbConnected
       THEN /\ Completed(p, [inv[p] EXCEPT !.hit = "miss",
                                           !.gate = "disconnected"],
                         getFallbackContinents(now), "none")
            /\ UNCHANGED << store, dbConnected, cache, now, ncalls, nenv >>
       ELSE Moved(p, [inv[p] EXCEPT !.hit = "miss", !.gate = "connected",
                                    !.pc = "groupBy", !.nq = @ + 1])

\* prisma.country.groupBy resolves; the summaries are mapped and
\* cacheManager.set is issued.
getContinents_groupBy(p) ==
    /\ At(p, "getContinents", "groupBy")
    /\ Moved(p, [inv[p] EXCEPT
                    !.result = ContinentData(GroupByContinent(store)),
                    !.pc = "set", !.ns = @ + 1])

\* getContinents_set with the response stored in place of the summaries.
getContinents_set_cachesResponse(p) ==
    /\ At(p, "getContinents", "set")
    /\ cache' = CacheSet(cache, inv[p].key,
                         ContinentsResponse(inv[p].result, now), CACHE_TTL)
    /\ Completed(p, inv[p], ContinentsResponse(inv[p].result, now), "none")
    /\ UNCHANGED << store, dbConnected, now, ncalls, nenv >>

\* cacheManager.set resolves; the summaries are returned in a response.
getContinents_set(p) ==
    /\ At(p, "getContinents", "set")
    /\ cache' = CacheSet(cache, inv[p].key, inv[p].result, CACHE_TTL)
    /\ Completed(p, inv[p], ContinentsResponse(inv[p].result, now), "none")
    /\ UNCHANGED << store, dbConnected, now, ncalls, nenv >>

(***************************************************************************)
(* getAllCountries()                                                       *)
(***************************************************************************)
getAllCountries(p) ==
    /\ CanCall(p)
    /\ Started(p, [Idle EXCEPT !.op = "getAllCountries",
                               !.key = CACHE_KEYS.ALL_COUNTRIES, !.pc = "get"])

\* getAllCountries_get with a miss served by another invocation that already
\* holds the rows, without a query of its own.
getAllCountries_get_coalesced(p) ==
    /\ At(p, "getAllCountries", "get")
    /\ IF CacheHas(inv[p].key)
       THEN /\ Completed(p, [inv[p] EXCEPT !.hit = "hit"],
                         cache[inv[p].key].value, "none")
            /\ UNCHANGED << store, dbConnected, cache, now, ncalls, nenv >>
       ELSE IF \E q \in Procs : q # p /\ At(q, "getAllCountries", "set")
       THEN /\ LET q == CHOOSE q \in Procs :
                            q # p /\ At(q, "getAllCountries", "set")
               IN  Completed(p, [inv[p] EXCEPT !.hit = "miss"],
                             inv[q].result, "none")
            /\ UNCHANGED << store, dbConnected, cache, now, ncalls, nenv >>
       ELSE Moved(p, [inv[p] EXCEPT !.hit = "miss", !.pc = "findMany",
                                    !.nq = @ + 1])

getAllCountries_get(p) ==
    /\ At(p, "getAllCountries", "get")
    /\ IF CacheHas(inv[p].key)
       THEN /\ Completed(p, [inv[p] EXCEPT !.hit = "hit"],
                         cache[inv[p].key].value, "none")
            /\ UNCHANGED << store, dbConnected, cache, now, ncalls, nenv >>
       ELSE Moved(p, [inv[p] EXCEPT !.hit = "miss", !.pc = "findMany",
                                    !.nq = @ + 1])

getAllCountries_findMany(p) ==
    /\ At(p, "getAllCountries", "findMany")
    /\ Moved(p, [inv[p] EXCEPT
                    !.result = countryDtos(FindManyAll(store)),
                    !.pc = "set", !.ns = @ + 1])

\* getAllCountries_set with the result returned and not stored.
getAllCountries_set_unstored(p) ==
    /\ At(p, "getAllCountries", "set")
    /\ Completed(p, inv[p], inv[p].result, "none")
    /\ UNCHANGED << store, dbConnected, cache, now, ncalls, nenv >>

getAllCountries_set(p) ==
    /\ At(p, "getAllCountries", "set")
    /\ cache' = CacheSet(cache, inv[p].key, inv[p].result, CACHE_TTL)
    /\ Completed(p, inv[p], inv[p].result, "none")
    /\ UNCHANGED << store, dbConnected, now, ncalls, nenv >>

(***************************************************************************)
(* invalidateCache()                                                       *)
(***************************************************************************)
\* The invocation of slot q as it is once an invalidateCache has begun: one
\* that holds a result read from the store and awaits its cacheManager.set
\* has been overtaken.
Overtaken(q) ==
    IF inv[q].pc = "set" THEN [inv[q] EXCEPT !.overtaken = TRUE] ELSE inv[q]

\* The three cacheManager.del calls are issued together.
invalidateCache(p) ==
    /\ CanCall(p)
    /\ inv' = [q \in Procs |->
                 IF q = p
                 THEN [Idle EXCEPT !.op = "invalidateCache", !.pc = "del",
                                   !.pending = InvalidatedKeys]
                 ELSE Overtaken(q)]
    /\ ncalls' = ncalls + 1
    /\ UNCHANGED << store, dbConnected, cache, now, last, nenv >>

\* invalidateCache_del with the whole cache emptied.
invalidateCache_del_reset(p, k) ==
    /\ At(p, "invalidateCache", "del")
    /\ k \in inv[p].pending
    /\ cache' = EmptyCache
    /\ LET r == [inv[p] EXCEPT !.pending = @ \ {k}]
       IN  IF r.pending = {}
           THEN Completed(p, r, NoRes, "none")
           ELSE inv' = [inv EXCEPT ![p] = r] /\ UNCHANGED last
    /\ UNCHANGED << store, dbConnected, now, ncalls, nenv >>

\* One of the pending deletions resolves; Promise.all resolves with the last.
invalidateCache_del(p, k) ==
    /\ At(p, "invalidateCache", "del")
    /\ k \in inv[p].pending
    /\ cache' = CacheDel(cache, {k})
    /\ LET r == [inv[p] EXCEPT !.pending = @ \ {k}]
       IN  IF r.pending = {}
           THEN Completed(p, r, NoRes, "none")
           ELSE inv' = [inv EXCEPT ![p] = r] /\ UNCHANGED last
    /\ UNCHANGED << store, dbConnected, now, ncalls, nenv >>

(***************************************************************************)
(* A store or cache call rejects: the catch block logs and rethrows.       *)
(***************************************************************************)
\* UpstreamFailure with the catch block of getCountries returning the fallback
\* page in place of the error.
UpstreamFailure_fallback(p) ==
    /\ inv[p].pc \in {"get", "count", "findMany", "findFirst", "groupBy", "set"}
    /\ IF inv[p].op = "getCountries"
       THEN Completed(p, inv[p],
                      getFallbackCountries(inv[p].filters, inv[p].pagination,
                                           now), "none")
       ELSE Completed(p, inv[p], NoRes, "UpstreamFailure")
    /\ UNCHANGED << store, dbConnected, cache, now, ncalls, nenv >>

UpstreamFailure(p) ==
    /\ inv[p].pc \in {"get", "count", "findMany", "findFirst", "groupBy", "set"}
    /\ Completed(p, inv[p], NoRes, "UpstreamFailure")
    /\ UNCHANGED << store, dbConnected, cache, now, ncalls, nenv >>

\* One of the pending deletions rejects, and Promise.all with it; the other
\* deletions were issued and take effect or not.
invalidateCache_fails(p) ==
    /\ At(p, "invalidateCache", "del")
    /\ \E done \in SUBSET inv[p].pending :
          /\ done # inv[p].pending
          /\ cache' = CacheDel(cache, done)
    /\ Completed(p, inv[p], NoRes, "UpstreamFailure")
    /\ UNCHANGED << store, dbConnected, now, ncalls, nenv >>

(***************************************************************************)
(* The environment: the clock, the store's connection, writes to the       *)
(* country table, expiry of cache entries.                                 *)
(***************************************************************************)
EnvStep ==
    /\ nenv < MaxEnv
    /\ nenv' = nenv + 1
    /\ UNCHANGED << inv, last, ncalls >>

Tick ==
    /\ EnvStep
    /\ now' = now + 1
    /\ UNCHANGED << store, dbConnected, cache >>

ConnectionChanges ==
    /\ EnvStep
    /\ dbConnected' = ~dbConnected
    /\ UNCHANGED << store, cache, now >>

\* A row is inserted, or written over the row with its code.
StoreUpsert(row) ==
    /\ EnvStep
    /\ row \notin store
    /\ store' = {r \in store : r.code # row.code} \cup {row}
    /\ UNCHANGED << dbConnected, cache, now >>

StoreDelete(row) ==
    /\ EnvStep
    /\ row \in store
    /\ store' = store \ {row}
    /\ UNCHANGED << dbConnected, cache, now >>

\* The time-to-live of an entry runs out.
Expire(k) ==
    /\ EnvStep
    /\ CacheHas(k)
    /\ cache' = CacheDel(cache, {k})
    /\ UNCHANGED << store, dbConnected, now >>

Environment ==
    \/ Tick
    \/ ConnectionChanges
    \/ \E row \in StoreRows : StoreUpsert(row)
    \/ \E row \in StoreRows : StoreDelete(row)
    \/ \E k \in DOMAIN cache : Expire(k)

(***************************************************************************)
(* Specifications.                                                         *)
(***************************************************************************)
Call(p) ==
    \/ \E request \in Requests : getCountries(p, request[1], request[2])
    \/ \E code \in CodeInputs : getCountryByCode(p, code)
    \/ getContinents(p)
    \/ getAllCountries(p)
    \/ invalidateCache(p)

Step(p) ==
    \/ getCountries_get(p)
    \/ getCountries_count(p)
    \/ getCountries_findMany(p)
    \/ getCountries_set(p)
    \/ getCountryByCode_get(p)
    \/ getCountryByCode_findFirst(p)
    \/ getCountryByCode_set(p)
    \/ getContinents_get(p)
    \/ getContinents_groupBy(p)
    \/ getContinents_set(p)
    \/ getAllCountries_get(p)
    \/ getAllCountries_findMany(p)
    \/ getAllCountries_set(p)
    \/ \E k \in InvalidatedKeys : invalidateCache_del(p, k)
    \/ UpstreamFailure(p)
    \/ invalidateCache_fails(p)

\* Invocations overlap freely.
Next ==
    \/ \E p \in Procs : ncalls < MaxCalls /\ Call(p)
    \/ \E p \in Procs : Step(p)
    \/ Environment

Spec == Init /\ [][Next]_vars

\* The caller waits for one invocation to complete before it starts the next.
NoneInFlight == \A q \in Procs : ~InFlight(q)

SeqNext ==
    \/ \E p \in Procs : ncalls < MaxSeqCalls /\ NoneInFlight /\ Call(p)
    \/ \E p \in Procs : Step(p)
    \/ Environment

SeqSpec == Init /\ [][SeqNext]_vars

(***************************************************************************)
(* CountriesController: the handlers pass the request's values on to the   *)
(* service.                                                                *)
(***************************************************************************)
\* @Query('page') page = 1, @Query('limit') limit = 20
DefaultPage == 1
DefaultLimit == 20
\* 'Number of countries per page (max 100)'
ApiQueryLimitMax == 100

\* A parameter with a default value: the default when the argument is
\* undefined.
DefaultTo(v, d) == IF v = Undefined THEN Num(d) ELSE v

CountriesController_getCountries(p, page, limit, continent, search) ==
    getCountries(p,
                 << Field("continent", continent), Field("search", search) >>,
                 << Field("page", DefaultTo(page, DefaultPage)),
                    Field("limit", DefaultTo(limit, DefaultLimit)) >>)

CountriesController_getCountryByCode(p, code) == getCountryByCode(p, code)

CountriesController_getContinents(p) == getContinents(p)

\* The values of the query parameters of a request.
PageParams == {Undefined} \cup {Num(n) : n \in 1..MaxPage}
LimitParams ==
    {Undefined, Num(1), Num(ApiQueryLimitMax), Num(ApiQueryLimitMax + 1)}
ContinentParams == {Undefined, Str("Europe")}
SearchParams == {Undefined}

\* The requests come through the controller.
ControllerCall(p) ==
    \/ \E page \in PageParams, limit \in LimitParams,
          continent \in ContinentParams, search \in SearchParams :
          CountriesController_getCountries(p, page, limit, continent, search)
    \/ \E code \in CodeInputs : CountriesController_getCountryByCode(p, code)
    \/ CountriesController_getContinents(p)
    \/ getAllCountries(p)
    \/ invalidateCache(p)

ControllerNext ==
    \/ \E p \in Procs : ncalls < MaxCalls /\ ControllerCall(p)
    \/ \E p \in Procs : Step(p)
    \/ Environment

ControllerSpec == Init /\ [][ControllerNext]_vars

(***************************************************************************)
(* Steps, as seen in a pair of successive states.                          *)
(***************************************************************************)
\* The invocation of slot p takes a step.
Steps(p) == inv'[p].pc # inv[p].pc \/ inv'[p].pending # inv[p].pending

\* The invocation of slot p completes (returns or throws) in this step.
Completes(p) == InFlight(p) /\ inv'[p].pc = "idle"

\* A getCountries call returns from the fallback table without suspending.
ReturnsFallback ==
    /\ ncalls' = ncalls + 1
    /\ \A p \in Procs : inv'[p].pc = inv[p].pc
    /\ last'.op = "getCountries"

PageOf(r) == Prop(r.pagination, "page").n
LimitOf(r) == Prop(r.pagination, "limit").n

(***************************************************************************)
(* C1.  Every PageResult that getCountries returns, from the store, from   *)
(* the cache or from the fallback table, has at most limit records and a   *)
(* meta block with the requested page and limit, totalPages equal to the   *)
(* ceiling of total / limit (the least n with n * limit >= total),         *)
(* hasNext = (page < totalPages) and hasPrev = (page > 1).                 *)
(***************************************************************************)
C1_PageResultConsistent ==
    (last.op = "getCountries" /\ last.err = "none") =>
        LET meta == last.res.meta
        IN  /\ PageOf(last) >= 1 /\ LimitOf(last) >= 1
            /\ Len(last.res.data) <= LimitOf(last)
            /\ meta.page = PageOf(last)
            /\ meta.limit = LimitOf(last)
            /\ meta.totalPages * meta.limit >= meta.total
            /\ (meta.totalPages - 1) * meta.limit < meta.total
            /\ meta.hasNext = (meta.page < meta.totalPages)
            /\ meta.hasPrev = (meta.page > 1)

\* A store-backed second page that holds the last of three matching rows,
\* while the cache still holds a page returned from the store.
C1_Witness ==
    /\ last.op = "getCountries" /\ last.err = "none"
    /\ last.gate = "connected" /\ last.hit = "miss"
    /\ last.res.meta.total = 3 /\ last.res.meta.limit = 2
    /\ last.res.meta.page = 2 /\ last.res.meta.totalPages = 2
    /\ Len(last.res.data) = 1

(***************************************************************************)
(* C2.  Two getCountries invocations whose filters and page request hold   *)
(* the same continent, region, search, page and limit values use the same  *)
(* cache key, whatever the order of the properties of the two objects and  *)
(* whether an unused property is absent or undefined.                      *)
(***************************************************************************)
SameRequest(a, b) ==
    /\ \A name \in {"continent", "region", "search"} :
          Prop(a.filters, name) = Prop(b.filters, name)
    /\ \A name \in {"page", "limit"} :
          Prop(a.pagination, name) = Prop(b.pagination, name)

C2_SameRequestSameKey ==
    \A p, q \in Procs :
        (/\ InFlight(p) /\ inv[p].op = "getCountries"
         /\ InFlight(q) /\ inv[q].op = "getCountries"
         /\ SameRequest(inv[p], inv[q]))
        => inv[p].key = inv[q].key

(***************************************************************************)
(* C3.  With the store connected, a getCountries invocation that completes *)
(* from the store leaves its result in the cache under its key, and an     *)
(* invocation that finds an entry under its key issues no store query and  *)
(* returns that entry's value as it is, timestamp included.                *)
(***************************************************************************)
C3_SecondCallServedFromCache ==
    [][\A p \in Procs :
          /\ (At(p, "getCountries", "set") /\ Completes(p) /\ last'.err = "none")
                => /\ inv[p].key \in DOMAIN cache'
                   /\ cache'[inv[p].key].value = last'.res
          /\ (At(p, "getCountries", "get") /\ Steps(p) /\ CacheHas(inv[p].key))
                => /\ Completes(p)
                   /\ last'.nq = 0
                   /\ last'.err = "none" => last'.res = cache[inv[p].key].value
      ]_vars

\* A hit that returned a result stamped at an earlier clock reading.
C3_Witness ==
    /\ last.op = "getCountries" /\ last.err = "none"
    /\ last.hit = "hit" /\ last.nq = 0
    /\ last.res.timestamp # toISOString(now)
    /\ "getCountries" \in {last.before[i] : i \in 1..Len(last.before)}

(***************************************************************************)
(* C4.  getCountries looks at the cache before it looks at the store's     *)
(* connection: it returns from the fallback table only when the store is   *)
(* disconnected and the cache holds no entry under the key of the request. *)
(***************************************************************************)
C4_CacheCheckedBeforeGate ==
    [][ReturnsFallback =>
          /\ ~dbConnected
          /\ ~CacheHas(FilteredKey(last'.filters, last'.pagination))
      ]_vars

(***************************************************************************)
(* C5.  A step of getCountries, getCountryByCode or getContinents taken by *)
(* an invocation that has not read the store as connected leaves the cache *)
(* as it was, and such an invocation has issued no cacheManager.set.       *)
(***************************************************************************)
GatedOperations == {"getCountries", "getCountryByCode", "getContinents"}

\* The invocation of slot p as it is after the step: still in its slot, or
\* completed.
After(p) == IF inv'[p].pc = "idle" THEN last' ELSE inv'[p]

C5_DisconnectedNeverSets ==
    [][/\ \A p \in Procs :
             (/\ Steps(p)
              /\ After(p).op \in GatedOperations
              /\ After(p).gate # "connected")
             => (cache' = cache /\ After(p).ns = 0)
       /\ ReturnsFallback => (cache' = cache /\ last'.ns = 0)
      ]_vars

\* A code lookup answered from the fallback table, the cache left empty.
C5_Witness ==
    /\ last.op = "getCountryByCode" /\ last.err = "none"
    /\ last.gate = "disconnected" /\ last.ns = 0
    /\ last.res.code = "US"
    /\ ~CacheHas(last.key)

(***************************************************************************)
(* C6.  As claimed: an invocation of getCountries, getCountryByCode or     *)
(* getContinents that completes where it reads the cache and the           *)
(* connection, the store disconnected, returns what the fallback table     *)
(* gives: the first fallback record with the code (NotFound when there is  *)
(* none), the fallback table's continents counted and sorted by name, the  *)
(* fallback page.                                                          *)
(***************************************************************************)
FallbackRecords ==
    {getFallbackCountryData[i] : i \in 1..Len(getFallbackCountryData)}

\* r returned what the fallback table holds for its request at time t.
FromFallbackTable(r, t) ==
    CASE r.op = "getCountryByCode" ->
             LET matching == {c \in FallbackRecords :
                                 toUpperCase(r.code) \in {c.code, c.code3}}
             IN  IF matching = {} THEN r.err = "NotFound"
                 ELSE r.err = "none" /\ r.res \in matching
      [] r.op = "getContinents" ->
             /\ r.err = "none"
             /\ r.res.timestamp = toISOString(t)
             /\ {r.res.data[i] : i \in 1..Len(r.res.data)} =
                   {[name |-> c.continent,
                     countryCount |-> Cardinality(
                         {d \in FallbackRecords : d.continent = c.continent})] :
                    c \in FallbackRecords}
             /\ \A i \in 1..(Len(r.res.data) - 1) :
                   StrLess(r.res.data[i].name, r.res.data[i + 1].name)
      [] r.op = "getCountries" ->
             /\ r.err = "none"
             /\ r.res.timestamp = toISOString(t)
             /\ \A i \in 1..Len(r.res.data) : r.res.data[i] \in FallbackRecords
             /\ r.res.meta.total <= Len(getFallbackCountryData)
      [] OTHER -> TRUE

\* The invocation of slot p completes in the step in which it learns what
\* the cache holds and whether the store is connected.
CompletesAtGet(p) == inv[p].pc = "get" /\ Completes(p)

C6_DisconnectedUsesFallbackOnly ==
    [][/\ \A p \in Procs :
             (/\ CompletesAtGet(p) /\ ~dbConnected
              /\ last'.op \in {"getCountryByCode", "getContinents"}
              /\ last'.err # "UpstreamFailure")
             => FromFallbackTable(last', now)
       /\ ReturnsFallback => FromFallbackTable(last', now)
      ]_vars

(***************************************************************************)
(* C6, amended.  With the store disconnected getCountries returns the      *)
(* fallback page whatever the cache holds; getCountryByCode and            *)
(* getContinents return what the fallback table gives only when the cache  *)
(* holds no entry under their key, and otherwise return the entry:         *)
(* getCountryByCode the cached record, getContinents the cached summaries  *)
(* in a response stamped with the time of the call.                        *)
(***************************************************************************)
C6_DisconnectedUsesFallbackOnMiss ==
    [][/\ \A p \in Procs :
             (/\ CompletesAtGet(p) /\ ~dbConnected
              /\ last'.op \in {"getCountryByCode", "getContinents"}
              /\ last'.err # "UpstreamFailure")
             => IF ~CacheHas(inv[p].key)
                THEN last'.gate = "disconnected" /\ FromFallbackTable(last', now)
                ELSE /\ last'.err = "none" /\ last'.nq = 0
                     /\ last'.op = "getCountryByCode"
                           => last'.res = cache[inv[p].key].value
                     /\ last'.op = "getContinents"
                           => /\ last'.res.data = cache[inv[p].key].value
                              /\ last'.res.timestamp = toISOString(now)
       /\ ReturnsFallback => (~dbConnected /\ FromFallbackTable(last', now))
      ]_vars

\* Continents served from an entry the store filled, which differs from the
\* fallback table's summaries, the store now disconnected.
C6_Witness ==
    /\ last.op = "getContinents" /\ last.err = "none"
    /\ last.hit = "hit" /\ last.nq = 0
    /\ ~dbConnected
    /\ CacheHas(last.key)
    /\ last.res.data = cache[last.key].value
    /\ last.res.data # getFallbackContinents(now).data

(***************************************************************************)
(* C7.  As claimed: in every reachable state getCountryByCode returns the  *)
(* same for the 2-letter code and the 3-letter code of a record, each in   *)
(* any letter case.                                                        *)
(***************************************************************************)
Code2Variants == {"us", "US", "Us"}
Code3Variants == {"usa", "USA", "uSa"}

C7_AllVariantsSameRecord ==
    LET outcomes == getCountryByCodeOutcomes("US")
    IN  \A a \in Code2Variants \cup Code3Variants :
            getCountryByCodeOutcomes(a) = outcomes

(***************************************************************************)
(* C7, amended.  getCountryByCode returns the same for the letter-case     *)
(* variants of one code; for the 2-letter and the 3-letter code of a       *)
(* record it returns the same when the cache holds an entry under neither  *)
(* of the two keys.  The steps of an invocation return what is stated      *)
(* here: the get step what the cache or the fallback table gives, the      *)
(* findFirst step what the store gives.                                    *)
(***************************************************************************)
SameOutcomesWhereUncached ==
    LET outcomes2 == getCountryByCodeOutcomes("US")
        outcomes3 == getCountryByCodeOutcomes("USA")
    IN  /\ \A a \in Code2Variants : getCountryByCodeOutcomes(a) = outcomes2
        /\ \A b \in Code3Variants : getCountryByCodeOutcomes(b) = outcomes3
        /\ (\A a \in Code2Variants \cup Code3Variants : ~CacheHas(CodeKey(a)))
              => outcomes2 = outcomes3

StepsReturnOutcomes ==
    \A p \in Procs :
        /\ (/\ At(p, "getCountryByCode", "get") /\ Completes(p)
            /\ last'.err # "UpstreamFailure")
           => [err |-> last'.err, res |-> last'.res]
                 \in getCountryByCodeOutcomes(inv[p].code)
        /\ (/\ At(p, "getCountryByCode", "findFirst") /\ Steps(p)
            /\ dbConnected /\ ~CacheHas(inv[p].key)
            /\ Completes(p) => last'.err # "UpstreamFailure")
           => IF Completes(p)
              THEN [err |-> last'.err, res |-> last'.res]
                      \in getCountryByCodeOutcomes(inv[p].code)
              ELSE [err |-> "none", res |-> inv'[p].result]
                      \in getCountryByCodeOutcomes(inv[p].code)

C7_VariantsSameRecordWhereUncached ==
    []SameOutcomesWhereUncached /\ [][StepsReturnOutcomes]_vars

\* A lookup by the 2-letter code answered by the store; its entry has
\* expired, and a lookup by the 3-letter code would return the same record.
C7_Witness ==
    /\ last.op = "getCountryByCode" /\ last.code = "us"
    /\ last.err = "none" /\ last.gate = "connected"
    /\ dbConnected
    /\ ~CacheHas(CodeKey("us")) /\ ~CacheHas(CodeKey("USA"))
    /\ getCountryByCodeOutcomes("USA") = {[err |-> "none", res |-> last.res]}

(***************************************************************************)
(* C8.  getCountryByCode throws NotFound for a code no record has: when it *)
(* reads the store as disconnected and no fallback record has the code,    *)
(* and when its store query finds no row.  It returns no record then and   *)
(* writes nothing to the cache, and for a code that no store row and no    *)
(* fallback record ever has it never returns a record.                     *)
(***************************************************************************)
HasCode(record, code) == toUpperCase(code) \in {record.code, record.code3}

C8_UnknownCodeNotFound ==
    [][\A p \in Procs :
          /\ (/\ At(p, "getCountryByCode", "get") /\ Completes(p)
              /\ last'.gate = "disconnected"
              /\ \A c \in FallbackRecords : ~HasCode(c, inv[p].code))
             => (last'.err = "NotFound" /\ last'.nq = 0 /\ cache' = cache)
          /\ (/\ At(p, "getCountryByCode", "findFirst") /\ Steps(p)
              /\ \A row \in store : ~HasCode(row, inv[p].code))
             => /\ Completes(p)
                /\ last'.err \in {"NotFound", "UpstreamFailure"}
                /\ last'.nq = 1 /\ cache' = cache
          /\ (/\ inv[p].op = "getCountryByCode" /\ Completes(p)
              /\ \A c \in FallbackRecords \cup StoreRows :
                    ~HasCode(c, inv[p].code))
             => last'.err \in {"NotFound", "UpstreamFailure"}
      ]_vars

\* NotFound from the store for a code no row has, after NotFound from the
\* fallback table or the store for an earlier lookup.
C8_Witness ==
    /\ last.op = "getCountryByCode" /\ last.code = "ZZZZZ"
    /\ last.err = "NotFound"
    /\ last.gate = "connected" /\ last.nq = 1 /\ last.ns = 0
    /\ ~CacheHas(last.key)

(***************************************************************************)
(* C9.  For a caller that waits for each call to complete: after           *)
(* invalidateCache has returned, the next getAllCountries finds no entry   *)
(* under countries:all and issues its store query; a getAllCountries that  *)
(* queries the store issues one query and one cacheManager.set and leaves  *)
(* what it returns under countries:all; and a getAllCountries that finds   *)
(* the entry returns it with no store query.                               *)
(***************************************************************************)
C9_InvalidateThenOneFetch ==
    [][\A p \in Procs :
          /\ (/\ At(p, "getAllCountries", "get") /\ Steps(p)
              /\ last.op = "invalidateCache" /\ last.err = "none")
             => /\ ~CacheHas(CACHE_KEYS.ALL_COUNTRIES)
                /\ ~Completes(p) => /\ inv'[p].pc = "findMany"
                                    /\ inv'[p].nq = 1
          /\ (At(p, "getAllCountries", "findMany") /\ Steps(p) /\ ~Completes(p))
             => /\ Len(inv'[p].result) = Cardinality(store)
                /\ \A row \in store : \E i \in 1..Len(inv'[p].result) :
                      inv'[p].result[i] = transformToDto(row)
                /\ inv'[p].nq = 1 /\ inv'[p].ns = 1
          /\ (/\ At(p, "getAllCountries", "set") /\ Completes(p)
              /\ last'.err = "none")
             => /\ last'.nq = 1 /\ last'.ns = 1
                /\ CACHE_KEYS.ALL_COUNTRIES \in DOMAIN cache'
                /\ cache'[CACHE_KEYS.ALL_COUNTRIES].value = last'.res
          /\ (/\ At(p, "getAllCountries", "get") /\ Steps(p)
              /\ CacheHas(CACHE_KEYS.ALL_COUNTRIES))
             => /\ Completes(p)
                /\ last'.nq = 0 /\ last'.ns = 0
                /\ last'.err = "none"
                      => last'.res = cache[CACHE_KEYS.ALL_COUNTRIES].value
                /\ cache' = cache
      ]_vars

\* invalidateCache, a getAllCountries that queried the store, and a
\* getAllCountries served from the entry the second call left.
C9_Witness ==
    /\ last.before = << "invalidateCache", "getAllCountries" >>
    /\ last.op = "getAllCountries" /\ last.err = "none"
    /\ last.hit = "hit" /\ last.nq = 0
    /\ nenv = 0
    /\ CacheHas(CACHE_KEYS.ALL_COUNTRIES)
    /\ last.res = cache[CACHE_KEYS.ALL_COUNTRIES].value
    /\ Len(last.res) = Cardinality(store)

(***************************************************************************)
(* C10.  For a caller that waits for each call to complete: every step of  *)
(* invalidateCache removes from the cache only keys among countries:all,   *)
(* countries:continents and countries:popular and leaves every other entry *)
(* as it is, and when invalidateCache returns the cache holds none of the  *)
(* three keys.                                                             *)
(***************************************************************************)
C10_InvalidateDeletesAggregateKeysOnly ==
    [][\A p \in Procs :
          (inv[p].op = "invalidateCache" /\ Steps(p)) =>
             /\ \A k \in DOMAIN cache \ InvalidatedKeys :
                   k \in DOMAIN cache' /\ cache'[k] = cache[k]
             /\ DOMAIN cache' \subseteq DOMAIN cache
             /\ (Completes(p) /\ last'.err = "none")
                   => /\ DOMAIN cache' \cap InvalidatedKeys = {}
                      /\ InvalidatedKeys =
                            {"countries:all", "countries:continents",
                             "countries:popular"}
      ]_vars

\* invalidateCache has returned after a code lookup and getAllCountries
\* filled the cache: the entry of the code is there, countries:all is not.
C10_Witness ==
    /\ last.op = "invalidateCache" /\ last.err = "none"
    /\ last.before = << "getCountryByCode", "getAllCountries" >>
    /\ nenv = 0
    /\ DOMAIN cache = {CodeKey("us")}
    /\ cache[CodeKey("us")].value.code = "US"

(***************************************************************************)
(* C11.  While the store is disconnected, a step of getCountries,          *)
(* getCountryByCode, getContinents or getAllCountries taken by an          *)
(* invocation that has not read the store as connected issues no store     *)
(* query and leaves the cache as it was.                                   *)
(***************************************************************************)
ReadOperations ==
    {"getCountries", "getCountryByCode", "getContinents", "getAllCountries"}

C11_DisconnectedNoQueryNoWrite ==
    [][\A p \in Procs :
          (/\ Steps(p) /\ ~dbConnected
           /\ After(p).op \in ReadOperations
           /\ After(p).gate # "connected")
          => /\ After(p).nq = inv[p].nq
             /\ After(p).ns = inv[p].ns
             /\ cache' = cache
      ]_vars

(***************************************************************************)
(* C12.  The records of every page getCountries returns, from the store,   *)
(* from the cache or from the fallback table, are in ascending order of    *)
(* name.                                                                   *)
(***************************************************************************)
InNameOrder(data) ==
    \A i \in 1..(Len(data) - 1) : ~StrLess(data[i + 1].name, data[i].name)

C12_PagesInNameOrder ==
    (last.op = "getCountries" /\ last.err = "none") => InNameOrder(last.res.data)

(***************************************************************************)
(* C13.  getContinents, on a cache miss with the store disconnected,       *)
(* returns one summary for each continent of the fallback table, its       *)
(* countryCount the number of fallback records of the continent, the       *)
(* counts adding up to the size of the table, in ascending order of name.  *)
(***************************************************************************)
RECURSIVE SumOfCounts(_)
SumOfCounts(summaries) ==
    IF Len(summaries) = 0 THEN 0
    ELSE Head(summaries).countryCount + SumOfCounts(Tail(summaries))

C13_FallbackContinentSummaries ==
    (/\ last.op = "getContinents" /\ last.err = "none"
     /\ last.hit = "miss" /\ last.gate = "disconnected")
    => LET data == last.res.data
       IN  /\ {data[i].name : i \in 1..Len(data)} =
                 {c.continent : c \in FallbackRecords}
           /\ \A i, j \in 1..Len(data) : data[i].name = data[j].name => i = j
           /\ \A i \in 1..Len(data) :
                 data[i].countryCount =
                    Cardinality({k \in 1..Len(getFallbackCountryData) :
                        getFallbackCountryData[k].continent = data[i].name})
           /\ SumOfCounts(data) = Len(getFallbackCountryData)
           /\ \A i \in 1..(Len(data) - 1) :
                 StrLess(data[i].name, data[i + 1].name)

\* The four continents of the fallback table, Asia first, returned with the
\* store disconnected and no entry under countries:continents.
C13_Witness ==
    /\ last.op = "getContinents" /\ last.err = "none"
    /\ last.hit = "miss" /\ last.gate = "disconnected"
    /\ last.nq = 0
    /\ Len(last.res.data) = 4
    /\ last.res.data[1] = [name |-> "Asia", countryCount |-> 1]
    /\ last.res.data[2] = [name |-> "Europe", countryCount |-> 3]

(***************************************************************************)
(* C14.  An invocation that ends in an error returns nothing and throws    *)
(* the error of the failed call, or NotFound from getCountryByCode; the    *)
(* step in which it fails issues no further store query or cache write; an *)
(* invocation waiting for count, findMany or groupBy completes only with   *)
(* their result or their failure, never with another result; and no        *)
(* invocation issues a call twice: at most one count, one findMany, one    *)
(* findFirst, one groupBy and one cacheManager.set.                        *)
(***************************************************************************)
QueriesOf(op) ==
    CASE op = "getCountries" -> 2
      [] op \in {"getCountryByCode", "getContinents", "getAllCountries"} -> 1
      [] OTHER -> 0

C14_FailuresSurfaceWithoutRetry ==
    [][\A p \in Procs :
          /\ (Completes(p) /\ last'.err # "none")
             => /\ last'.err \in {"UpstreamFailure", "NotFound"}
                /\ last'.err = "NotFound" => last'.op = "getCountryByCode"
                /\ last'.res = NoRes
                /\ last'.nq = inv[p].nq /\ last'.ns = inv[p].ns
          /\ (Completes(p) /\ inv[p].pc \in {"count", "findMany", "groupBy"})
             => last'.err = "UpstreamFailure"
          /\ (Completes(p) /\ inv[p].pc = "findFirst")
             => last'.err \in {"UpstreamFailure", "NotFound"}
          /\ Steps(p)
             => /\ After(p).nq <= QueriesOf(After(p).op)
                /\ After(p).ns <= 1
                /\ After(p).nq >= inv[p].nq /\ After(p).nq <= inv[p].nq + 1
      ]_vars

\* getCountries has thrown the failure of its findMany: count and findMany
\* were issued once each, cacheManager.set was not.
C14_Witness ==
    /\ last.op = "getCountries" /\ last.err = "UpstreamFailure"
    /\ last.res = NoRes
    /\ last.gate = "connected" /\ last.hit = "miss"
    /\ last.nq = 2 /\ last.ns = 0
    /\ ~CacheHas(last.key)

(***************************************************************************)
(* C15.  Every value a read operation returns, from the store, from the    *)
(* cache or from the fallback table, is an envelope: an object with the    *)
(* properties success, message, timestamp and data, and meta besides for   *)
(* the pages of getCountries.                                              *)
(***************************************************************************)
EnvelopeFields == {"success", "message", "timestamp", "data"}

\* v is an object with exactly the properties of names.
HasFields(v, names) ==
    Cardinality(DOMAIN v) = Cardinality(names) /\ DOMAIN v = names

C15_EveryResponseHasEnvelope ==
    (last.op \in ReadOperations /\ last.err = "none")
    => \/ HasFields(last.res, EnvelopeFields)
       \/ /\ last.op = "getCountries"
          /\ HasFields(last.res, EnvelopeFields \cup {"meta"})

(***************************************************************************)
(* C16.  Every page request the controller passes to getCountries has      *)
(* page >= 1 and 1 <= limit <= 100, whatever the query parameters of the   *)
(* request.                                                                *)
(***************************************************************************)
ValidPageRequest(pagination) ==
    LET page == Prop(pagination, "page")
        limit == Prop(pagination, "limit")
    IN  /\ page.t = "number" /\ page.n >= 1
        /\ limit.t = "number" /\ limit.n >= 1 /\ limit.n <= ApiQueryLimitMax

C16_PageRequestWithinLimits ==
    /\ \A p \in Procs :
          inv[p].op = "getCountries" => ValidPageRequest(inv[p].pagination)
    /\ last.op = "getCountries" => ValidPageRequest(last.pagination)

(***************************************************************************)
(* C17.  Invocations of one read operation that overlap and find no entry  *)
(* under their key do not wait for each other: an invocation whose cache   *)
(* read misses with the store connected issues its store query in that     *)
(* step, whatever other invocations are in flight, and an invocation that  *)
(* missed and returns from the store has issued each of its queries once   *)
(* and cacheManager.set once, and leaves an entry under its key.           *)
(***************************************************************************)
C17_ConcurrentMissesEachQueryOnce ==
    [][\A p \in Procs :
          /\ (/\ inv[p].pc = "get" /\ Steps(p)
              /\ inv[p].op \in ReadOperations
              /\ ~CacheHas(inv[p].key)
              /\ dbConnected \/ inv[p].op = "getAllCountries"
              /\ Completes(p) => last'.err # "UpstreamFailure")
             => /\ ~Completes(p)
                /\ inv'[p].hit = "miss" /\ inv'[p].nq = 1
          /\ (/\ Completes(p) /\ last'.op \in ReadOperations
              /\ last'.err = "none" /\ last'.hit = "miss"
              /\ last'.gate # "disconnected")
             => /\ last'.nq = QueriesOf(last'.op)
                /\ last'.ns = 1
                /\ last'.key \in DOMAIN cache'
      ]_vars

\* Two getAllCountries, no expiry and no invalidation: both missed, both
\* returned the rows, the second after it queried the store itself.
C17_Witness ==
    /\ last.op = "getAllCountries" /\ last.err = "none"
    /\ last.before = << "getAllCountries" >>
    /\ last.hit = "miss" /\ last.nq = 1 /\ last.ns = 1
    /\ nenv = 0 /\ ncalls = 2
    /\ Len(last.res) = 3
    /\ CacheHas(CACHE_KEYS.ALL_COUNTRIES)

(***************************************************************************)
(* C18.  As claimed: an invocation of a read operation issues a store      *)
(* query only after its cache read missed, issues cacheManager.set only    *)
(* after its store queries resolved, and writes to the cache exactly the   *)
(* value it returns.                                                       *)
(***************************************************************************)
\* a and b are values of one shape, and equal.
SameValue(a, b) ==
    Cardinality(DOMAIN a) = Cardinality(DOMAIN b) /\ a = b

ReadThenQueryThenWrite(p) ==
    (Steps(p) /\ After(p).op \in ReadOperations)
    => /\ After(p).nq > inv[p].nq
          => /\ After(p).hit = "miss"
             /\ inv[p].pc \in {"get", "count"}
       /\ After(p).ns > inv[p].ns
          => /\ After(p).nq = QueriesOf(After(p).op)
             /\ inv[p].pc \in {"findMany", "findFirst", "groupBy"}
             /\ After(p).nq = inv[p].nq
       /\ cache' # cache
          => /\ inv[p].pc = "set" /\ Completes(p) /\ last'.err = "none"
             /\ DOMAIN cache' = DOMAIN cache \cup {inv[p].key}
             /\ \A k \in DOMAIN cache \ {inv[p].key} : cache'[k] = cache[k]

C18_WritesTheReturnedValue ==
    [][\A p \in Procs :
          /\ ReadThenQueryThenWrite(p)
          /\ (/\ inv[p].op \in ReadOperations /\ inv[p].pc = "set"
              /\ Completes(p) /\ last'.err = "none")
             => SameValue(cache'[inv[p].key].value, last'.res)
      ]_vars

(***************************************************************************)
(* C18, amended.  The order is as claimed; getCountries, getCountryByCode  *)
(* and getAllCountries write to the cache exactly the value they return,   *)
(* and getContinents writes the summaries that the response it returns     *)
(* carries as data.                                                        *)
(***************************************************************************)
C18_WritesTheReturnedData ==
    [][\A p \in Procs :
          /\ ReadThenQueryThenWrite(p)
          /\ (/\ inv[p].op \in ReadOperations /\ inv[p].pc = "set"
              /\ Completes(p) /\ last'.err = "none")
             => IF inv[p].op = "getContinents"
                THEN SameValue(cache'[inv[p].key].value, last'.res.data)
                ELSE SameValue(cache'[inv[p].key].value, last'.res)
      ]_vars

\* getContinents has returned from the store: one query, one set, the
\* summaries of the three continents of the store under its key.
C18_Witness ==
    /\ last.op = "getContinents" /\ last.err = "none"
    /\ last.hit = "miss" /\ last.gate = "connected"
    /\ last.nq = 1 /\ last.ns = 1
    /\ CacheHas(last.key)
    /\ cache[last.key].value = last.res.data
    /\ Len(last.res.data) = 3

(***************************************************************************)
(* C19.  A page getCountries returns from the fallback table is cut from   *)
(* the fallback records, in the order of the table, that satisfy every     *)
(* filter that is present: continent equal without regard to case, region  *)
(* containing the text without regard to case, search contained without    *)
(* regard to case in the name, the code or the 3-letter code.  total is    *)
(* their number; with no filter present it is the size of the table.       *)
(***************************************************************************)
Present(filters, name) ==
    Prop(filters, name).t = "string" /\ Prop(filters, name).s # ""

Satisfies(c, filters) ==
    /\ Present(filters, "continent")
          => toLowerCase(c.continent) = toLowerCase(Prop(filters, "continent").s)
    /\ Present(filters, "region")
          => includes(toLowerCase(c.region),
                      toLowerCase(Prop(filters, "region").s))
    /\ Present(filters, "search")
          => \E field \in {"name", "code", "code3"} :
                includes(toLowerCase(c[field]),
                         toLowerCase(Prop(filters, "search").s))

C19_FallbackFiltersConjoined ==
    (/\ last.op = "getCountries" /\ last.err = "none"
     /\ last.gate = "disconnected")
    => LET table == getFallbackCountryData
           matching == {k \in 1..Len(table) : Satisfies(table[k], last.filters)}
           start == (PageOf(last) - 1) * LimitOf(last)
           data == last.res.data
           Nth(n) == CHOOSE k \in matching :
                        Cardinality({j \in matching : j < k}) = n - 1
       IN  /\ last.res.meta.total = Cardinality(matching)
           /\ Len(data) = IF Cardinality(matching) - start > LimitOf(last)
                           THEN LimitOf(last)
                           ELSE IF Cardinality(matching) > start
                           THEN Cardinality(matching) - start ELSE 0
           /\ \A i \in 1..Len(data) : data[i] = table[Nth(start + i)]
           /\ (\A name \in {"continent", "region", "search"} :
                  ~Present(last.filters, name))
                 => last.res.meta.total = Len(table)

\* The fallback page for continent "europe", region "ERN" and an empty
\* search: three records match, the United Kingdom first.
C19_Witness ==
    /\ last.op = "getCountries" /\ last.err = "none"
    /\ last.gate = "disconnected"
    /\ last.filters = FiltersContinentRegion
    /\ last.res.meta.total = 3
    /\ Len(last.res.data) = 2
    /\ last.res.data[1].code = "GB" /\ last.res.data[2].code = "FR"

(***************************************************************************)
(* C20.  As claimed: the step in which an invocation ends in an error      *)
(* leaves the cache as it was.                                             *)
(***************************************************************************)
C20_ErrorLeavesCacheUnchanged ==
    [][\A p \in Procs :
          (Completes(p) /\ last'.err # "none") => cache' = cache
      ]_vars

(***************************************************************************)
(* C20, amended.  An invocation of a read operation that ends in an error  *)
(* leaves the cache unchanged: no step of a read operation changes the     *)
(* cache but the one in which its cacheManager.set resolves and it         *)
(* returns, so that after NotFound or a failed store query there is no     *)
(* entry under the key unless there was one before.                        *)
(***************************************************************************)
C20_ReadErrorLeavesCacheUnchanged ==
    [][\A p \in Procs :
          /\ (/\ Steps(p) /\ After(p).op \in ReadOperations
              /\ ~(inv[p].pc = "set" /\ Completes(p) /\ last'.err = "none"))
             => cache' = cache
          /\ (/\ Completes(p) /\ last'.op \in ReadOperations
              /\ last'.err # "none")
             => /\ cache' = cache
                /\ ~CacheHas(inv[p].key) => last'.key \notin DOMAIN cache'
      ]_vars

\* A second NotFound for a code: the first left no entry, and the second
\* invocation queried the store again.
C20_Witness ==
    /\ last.op = "getCountryByCode" /\ last.err = "NotFound"
    /\ last.before = << "NotFound" >>
    /\ last.gate = "connected" /\ last.nq = 1 /\ last.ns = 0
    /\ nenv = 0 /\ ncalls = 2
    /\ cache = EmptyCache

(***************************************************************************)
(* C21.  A page getCountries returns from the store has as many records as *)
(* its total leaves for the page: min(limit, max(0, total - (page - 1) *   *)
(* limit)), also when the country table is written while the invocation is *)
(* in flight; the count and the page fetch see the same matching rows.     *)
(***************************************************************************)
\* The number of records that a total of `total` rows leaves for the page.
PageLength(page, limit, total) ==
    LET rest == total - (page - 1) * limit
    IN  IF rest <= 0 THEN 0 ELSE IF rest < limit THEN rest ELSE limit

C21_DataAndTotalAgree ==
    /\ (/\ last.op = "getCountries" /\ last.err = "none"
        /\ last.gate = "connected" /\ last.hit = "miss")
       => Len(last.res.data)
            = PageLength(PageOf(last), LimitOf(last), last.res.meta.total)
    /\ \A p \in Procs :
          At(p, "getCountries", "findMany")
          => inv[p].total = Count(store, Where(inv[p].filters))

(***************************************************************************)
(* C22.  Once invalidateCache has completed, no getAllCountries or         *)
(* getContinents invocation that read the store before that invalidation   *)
(* began writes its result into the cache: a value found under             *)
(* countries:all or countries:continents after the deletion was fetched    *)
(* from the store after the invalidation began.                            *)
(***************************************************************************)
AggregateOperations == {"getAllCountries", "getContinents"}

\* The invocation that completed most recently is an invalidateCache that
\* returned, and none is in flight.
InvalidationCompleted ==
    /\ last.op = "invalidateCache" /\ last.err = "none"
    /\ \A r \in Procs : inv[r].op # "invalidateCache"

\* The cacheManager.set of the invocation of slot q resolves in this step.
Writes(q) ==
    /\ inv[q].pc = "set" /\ Completes(q) /\ last'.err = "none"
    /\ inv[q].key \in DOMAIN cache'
    /\ cache'[inv[q].key].value = inv[q].result

C22_NoOlderResultAfterInvalidation ==
    [][\A q \in Procs :
          (/\ inv[q].op \in AggregateOperations
           /\ InvalidationCompleted
           /\ Writes(q))
          => ~inv[q].overtaken]_vars

=============================================================================
